---------------------------- MODULE Spec2Model ----------------------------
(***************************************************************************)
(* A model of the whisper-assistant voice-command extension:               *)
(*   - CommandMapper (mapTranscriptionToCommand,                           *)
(*     mapTranscriptionToCommandViaTools, executeCommand),                 *)
(*   - the toggle-recording lifecycle of the extension                     *)
(*     (toggleRecordingCommand, finalizeProgress, deactivate),             *)
(*   - SpeechTranscription.processRecording.                               *)
(* Strings that the code measures or parses are sequences: a transcription *)
(* text is a sequence of characters, a JSON text a sequence of tokens.     *)
(***************************************************************************)
EXTENDS Integers, Sequences, FiniteSets, TLC

(***************************************************************************)
(* Bounds of the model.                                                    *)
(***************************************************************************)
\* longest transcription text, in characters
MaxTextLen == 3
\* toggle-recording invocations that may be suspended at the same time
MaxInvocations == 3
\* recorder processes that startRecording may start in one run
MaxRecorders == 3

(***************************************************************************)
(* JavaScript values: undefined, null, strings and objects.                *)
(***************************************************************************)
JUndef == [t |-> "undefined"]
JNull == [t |-> "null"]
JStr(s) == [t |-> "string", s |-> s]
JObj(f) == [t |-> "object", props |-> f]

\* the object with no own properties, {}
EmptyProps == [k \in {} |-> JUndef]

\* v.k for a value v that is not null or undefined (those throw a TypeError)
Get(v, k) ==
  IF v.t = "object" /\ k \in DOMAIN v.props THEN v.props[k] ELSE JUndef

\* property access v.k throws a TypeError
GetThrows(v) == v.t \in {"undefined", "null"}

\* JavaScript truthiness of a value
Truthy(v) ==
  CASE v.t = "undefined" -> FALSE
    [] v.t = "null" -> FALSE
    [] v.t = "string" -> v.s # ""
    [] OTHER -> TRUE

(***************************************************************************)
(* JSON texts.  A JSON text is a sequence of tokens; the punctuation       *)
(* tokens are "{", "}", ":", "," and the literal null, every other token   *)
(* is a string literal (written between quotes in the text).               *)
(***************************************************************************)
Punct == {"{", "}", ":", ",", "null"}
IsStrTok(tok) == tok \notin Punct

ParseFail == [ok |-> FALSE, val |-> JUndef, rest |-> <<>>]

RECURSIVE ParseValue(_), ParseMembers(_, _)
\* one JSON value at the head of toks; rest is what follows it
ParseValue(toks) ==
  IF toks = <<>> THEN ParseFail
  ELSE IF Head(toks) = "null" THEN [ok |-> TRUE, val |-> JNull, rest |-> Tail(toks)]
  ELSE IF Head(toks) = "{" THEN
    IF Len(toks) >= 2 /\ toks[2] = "}"
    THEN [ok |-> TRUE, val |-> JObj(EmptyProps), rest |-> Tail(Tail(toks))]
    ELSE ParseMembers(Tail(toks), EmptyProps)
  ELSE IF IsStrTok(Head(toks))
  THEN [ok |-> TRUE, val |-> JStr(Head(toks)), rest |-> Tail(toks)]
  ELSE ParseFail

\* the members  key : value (, key : value)* }  of an object; a repeated key
\* keeps its last value
ParseMembers(toks, props) ==
  IF Len(toks) < 3 \/ ~IsStrTok(toks[1]) \/ toks[2] # ":" THEN ParseFail
  ELSE
    LET key == toks[1]
        r == ParseValue(SubSeq(toks, 3, Len(toks)))
    IN IF ~r.ok \/ r.rest = <<>> THEN ParseFail
       ELSE
         LET next == [k \in (DOMAIN props) \cup {key} |->
                        IF k = key THEN r.val ELSE props[k]]
         IN IF Head(r.rest) = "}"
            THEN [ok |-> TRUE, val |-> JObj(next), rest |-> Tail(r.rest)]
            ELSE IF Head(r.rest) = ","
            THEN ParseMembers(Tail(r.rest), next)
            ELSE ParseFail

\* JSON.parse: the value of the whole text, or a SyntaxError (ok = FALSE)
JSONParse(toks) ==
  LET r == ParseValue(toks)
  IN IF r.ok /\ r.rest = <<>>
     THEN [ok |-> TRUE, val |-> r.val]
     ELSE [ok |-> FALSE, val |-> JUndef]

\* JSON.stringify of a null, string or object value; the members of an object
\* are written in the order of KeyOrder and undefined members are left out
KeyOrder == <<"command", "args", "filename", "searchTerm", "extra">>

RECURSIVE Stringify(_), StringifyMembers(_, _, _)
Stringify(v) ==
  CASE v.t = "null" -> <<"null">>
    [] v.t = "string" -> <<v.s>>
    [] v.t = "object" -> <<"{">> \o StringifyMembers(v.props, 1, TRUE) \o <<"}">>

StringifyMembers(props, i, first) ==
  IF i > Len(KeyOrder) THEN <<>>
  ELSE IF KeyOrder[i] \in DOMAIN props /\ props[KeyOrder[i]].t # "undefined"
  THEN (IF first THEN <<>> ELSE <<",">>)
       \o <<KeyOrder[i], ":">> \o Stringify(props[KeyOrder[i]])
       \o StringifyMembers(props, i + 1, FALSE)
  ELSE StringifyMembers(props, i + 1, first)

(***************************************************************************)
(* The command enumeration and the tool lookup table.                      *)
(***************************************************************************)
CommandEnum ==
  { "workbench.action.quickOpen",
    "workbench.action.files.newUntitledFile",
    "workbench.action.files.save",
    "workbench.action.closeActiveEditor",
    "workbench.action.findInFiles",
    "references-view.findReferences" }

ToolNames ==
  {"quickOpen", "newFile", "saveFile", "closeEditor", "findInFiles", "findReferences"}

\* faulty variant of commandMap: findReferences is given the identifier of
\* findInFiles
commandMap_Swapped(name) ==
  CASE name = "quickOpen" -> JStr("workbench.action.quickOpen")
    [] name = "newFile" -> JStr("workbench.action.files.newUntitledFile")
    [] name = "saveFile" -> JStr("workbench.action.files.save")
    [] name = "closeEditor" -> JStr("workbench.action.closeActiveEditor")
    [] name = "findInFiles" -> JStr("workbench.action.findInFiles")
    [] name = "findReferences" -> JStr("workbench.action.findInFiles")
    [] OTHER -> JUndef

\* commandMap[name]: the host command of a tool name, undefined for a name
\* that is not a key of the table
commandMap(name) ==
  CASE name = "quickOpen" -> JStr("workbench.action.quickOpen")
    [] name = "newFile" -> JStr("workbench.action.files.newUntitledFile")
    [] name = "saveFile" -> JStr("workbench.action.files.save")
    [] name = "closeEditor" -> JStr("workbench.action.closeActiveEditor")
    [] name = "findInFiles" -> JStr("workbench.action.findInFiles")
    [] name = "findReferences" -> JStr("references-view.findReferences")
    [] OTHER -> JUndef

(***************************************************************************)
(* Inputs: transcription texts and replies of the language model.          *)
(***************************************************************************)
Chars == {"o", "k"}
Texts == UNION {[1..n -> Chars] : n \in 0..MaxTextLen}

\* a command name outside the enumeration, and a tool name outside the table
OtherCommand == "workbench.action.terminal.new"
OtherTool == "openTerminal"
Filenames == {"config"}

\* values of the shape {command, args?}
MappingShapes ==
  LET cmds == CommandEnum \cup {OtherCommand}
  IN {JObj([command |-> JStr(c)]) : c \in cmds}
     \cup {JObj([command |-> JStr(c), args |-> JObj(EmptyProps)]) : c \in cmds}
     \cup {JObj([command |-> JStr(c), args |-> JObj([filename |-> JStr(f)])]) :
             c \in cmds, f \in Filenames}

\* texts that JSON.parse rejects
MalformedPayloads ==
  { <<"{">>,
    <<"{", "command", ":">>,
    <<"{", "command", ":", "workbench.action.files.save">>,
    <<"{", "command", ":", "workbench.action.files.save", ",", "}">>,
    <<"{", "}", "}">> }

\* the arguments string of a function_call
FunctionPayloads ==
  {Stringify(m) : m \in MappingShapes}
  \cup MalformedPayloads
  \cup { <<>>, <<"null">>, <<"{", "}">>, <<"workbench.action.files.save">>,
         Stringify(JObj([command |-> JStr("workbench.action.files.save"),
                         extra |-> JStr("x")])) }

\* the arguments string of a tool call
ToolPayloads ==
  {Stringify(JObj([filename |-> JStr(f)])) : f \in Filenames}
  \cup { <<>>, <<"null">>, <<"{", "}">>, <<"{">>, <<"config">> }

Choice(fcs, tcs) == [message |-> <<[function_call |-> fcs, tool_calls |-> tcs]>>]
NoMessage == [message |-> <<>>]
Completion(cs) == [threw |-> FALSE, choices |-> cs]
\* the request rejected (transport failure, HTTP error)
RequestFails == [threw |-> TRUE, choices |-> <<>>]

FunctionCalls ==
  {[name |-> "executeVSCodeCommand", arguments |-> p] : p \in FunctionPayloads}
ToolCalls ==
  {[type |-> ty, function |-> [name |-> n, arguments |-> p]] :
     ty \in {"function", "custom"}, n \in ToolNames \cup {OtherTool}, p \in ToolPayloads}

SaveCall ==
  [name |-> "executeVSCodeCommand",
   arguments |-> Stringify(JObj([command |-> JStr("workbench.action.files.save")]))]
SaveTool ==
  [type |-> "function", function |-> [name |-> "saveFile", arguments |-> <<"{", "}">>]]

\* replies to the request of mapTranscriptionToCommand
FunctionsReplies ==
  { RequestFails, Completion(<<>>), Completion(<<NoMessage>>),
    Completion(<<Choice(<<>>, <<>>)>>),
    Completion(<<Choice(<<>>, <<SaveTool>>)>>),
    Completion(<<Choice(<<>>, <<>>), Choice(<<SaveCall>>, <<>>)>>),
    Completion(<<NoMessage, Choice(<<SaveCall>>, <<>>)>>) }
  \cup {Completion(<<Choice(<<fc>>, <<>>)>>) : fc \in FunctionCalls}
  \cup {Completion(<<Choice(<<fc>>, <<>>), Choice(<<SaveCall>>, <<>>)>>) :
          fc \in {[name |-> "executeVSCodeCommand", arguments |-> <<>>],
                  [name |-> "executeVSCodeCommand", arguments |-> <<"{">>]}}

\* replies to the request of mapTranscriptionToCommandViaTools
ToolsReplies ==
  { RequestFails, Completion(<<>>), Completion(<<NoMessage>>),
    Completion(<<Choice(<<>>, <<>>)>>),
    Completion(<<Choice(<<SaveCall>>, <<>>)>>),
    Completion(<<Choice(<<>>, <<>>), Choice(<<>>, <<SaveTool>>)>>),
    Completion(<<NoMessage, Choice(<<>>, <<SaveTool>>)>>) }
  \cup {Completion(<<Choice(<<>>, <<tc>>)>>) : tc \in ToolCalls}
  \cup {Completion(<<Choice(<<>>, <<tc, SaveTool>>)>>) :
          tc \in {t \in ToolCalls : t.function.name \in {"quickOpen", OtherTool}}}

Replies(variant) == IF variant = "functions" THEN FunctionsReplies ELSE ToolsReplies

(***************************************************************************)
(* CommandMapper.                                                          *)
(*   mpc           where the caller's cycle stands: "idle", "mapAwait" (a  *)
(*                 mapping call suspended at its request), "mapReturned",  *)
(*                 "execAwait" (executeCommand suspended at the host       *)
(*                 command), "execReturned"                                *)
(*   variant       "functions" (mapTranscriptionToCommand) or "tools"      *)
(*                 (mapTranscriptionToCommandViaTools)                     *)
(*   text          transcription.text of the current mapping call          *)
(*   requests      the chat-completion requests issued by the current call *)
(*   reply         <<>> or <<r>>, the reply the request settled with       *)
(*   result        the value the last settled call returned                *)
(*   outcome       "pending", "returned" or "raised": how the current call *)
(*                 left to its caller                                      *)
(*   notifications vscode.window.showErrorMessage calls of the current call*)
(*   errorLog      console.error calls of the current call                 *)
(*   hostCalls     vscode.commands.executeCommand calls of the current call*)
(*   hostReply     <<>> or <<o>>, how the host command settled             *)
(* Two history variables compare mapping calls with one another:           *)
(*   probe         the input (variant, text, reply) under observation      *)
(*   probed        what the first two mapping calls with that input did:   *)
(*                 their requests, result, outcome, notifications and log  *)
(***************************************************************************)
VARIABLES mpc, variant, text, requests, reply, result, outcome,
          notifications, errorLog, hostCalls, hostReply, probe, probed

mapperVars == <<mpc, variant, text, requests, reply, result, outcome,
                notifications, errorLog, hostCalls, hostReply, probe, probed>>

\* no input is under observation
NoProbe == [variant |-> "none", text |-> <<>>, reply |-> <<>>]

\* the inputs that may be put under observation
Probes ==
  { [variant |-> "functions", text |-> <<"o", "k">>, reply |-> <<>>],
    [variant |-> "functions", text |-> <<"k", "k", "k">>,
     reply |-> <<Completion(<<Choice(<<>>, <<>>)>>)>>],
    [variant |-> "functions", text |-> <<"k", "k", "k">>,
     reply |-> <<Completion(<<Choice(<<SaveCall>>, <<>>)>>)>>],
    [variant |-> "tools", text |-> <<"o", "k", "o">>,
     reply |-> <<Completion(<<Choice(<<>>, <<SaveTool>>)>>)>>],
    [variant |-> "tools", text |-> <<"o", "k", "o">>, reply |-> <<RequestFails>>] }

\* a mapping call with input (v, txt, rep) returned having done obs
Observed(v, txt, rep, obs) ==
  /\ probed' = IF probe = [variant |-> v, text |-> txt, reply |-> rep] /\ Len(probed) < 2
               THEN Append(probed, obs) ELSE probed
  /\ UNCHANGED probe

MapErrorLog == "Error mapping transcription to command:"
MapErrorNotice == "Failed to map voice command to VS Code action"
ExecErrorLog == "Error executing VS Code command:"
ExecErrorNotice == "Failed to execute VS Code command"

\* faulty variant of TooShort: the guard compares with < 2
TooShort_OffByOne(txt) == txt = <<>> \/ Len(txt) < 2

\* !transcription.text || transcription.text.length <= 2
TooShort(txt) == txt = <<>> \/ Len(txt) <= 2

\* the request of a mapping call: the model, the forced function or the tools,
\* and the transcription as the sole user message
ChatRequest(v, txt) ==
  [model |-> "gpt-4",
   user |-> txt,
   declares |-> IF v = "functions" THEN {"executeVSCodeCommand"} ELSE ToolNames,
   forced |-> v = "functions"]

\* how a call leaves: a return statement outside the catch block
Returned(v) ==
  [outcome |-> "returned", result |-> v, log |-> <<>>, notices |-> <<>>]

\* faulty variant of MapCaught: the error is logged and thrown on
MapCaught_Rethrows ==
  [outcome |-> "raised", result |-> JUndef, log |-> <<MapErrorLog>>, notices |-> <<>>]

\* the catch block of the mapping calls: log, notify, return undefined
MapCaught ==
  [outcome |-> "returned", result |-> JUndef,
   log |-> <<MapErrorLog>>, notices |-> <<MapErrorNotice>>]

\* completion.choices[0]?.message : <<>> when undefined
FirstMessage(completion) ==
  IF Len(completion.choices) = 0 THEN <<>> ELSE completion.choices[1].message

\* faulty variant of FirstFunctionCall: the function call of the first choice
\* that has one
FirstFunctionCall_AnyChoice(completion) ==
  LET having == {i \in 1..Len(completion.choices) :
                   /\ completion.choices[i].message # <<>>
                   /\ completion.choices[i].message[1].function_call # <<>>}
  IN IF having = {} THEN <<>>
     ELSE completion.choices[CHOOSE i \in having : \A j \in having : i <= j]
            .message[1].function_call

\* completion.choices[0]?.message?.function_call : <<>> when undefined
FirstFunctionCall(completion) ==
  IF FirstMessage(completion) = <<>> THEN <<>>
  ELSE FirstMessage(completion)[1].function_call

\* completion.choices[0]?.message?.tool_calls?.[0] : <<>> when undefined
FirstToolCall(completion) ==
  IF FirstMessage(completion) = <<>> THEN <<>>
  ELSE IF Len(FirstMessage(completion)[1].tool_calls) = 0 THEN <<>>
  ELSE <<FirstMessage(completion)[1].tool_calls[1]>>

\* faulty variant of mapTranscriptionToCommand: only the command of the parsed
\* arguments is returned
mapTranscriptionToCommand_DropsArgs(r) ==
  IF r.threw THEN MapCaught
  ELSE IF FirstFunctionCall(r) # <<>> /\ FirstFunctionCall(r)[1].arguments # <<>>
  THEN LET args == JSONParse(FirstFunctionCall(r)[1].arguments)
       IN IF ~args.ok THEN MapCaught
          ELSE IF GetThrows(args.val) THEN Returned(args.val)
          ELSE Returned(JObj([command |-> Get(args.val, "command")]))
  ELSE Returned(JUndef)

\* mapTranscriptionToCommand from the point where its request settles
mapTranscriptionToCommand(r) ==
  IF r.threw THEN MapCaught
  ELSE IF FirstFunctionCall(r) # <<>> /\ FirstFunctionCall(r)[1].arguments # <<>>
  THEN LET args == JSONParse(FirstFunctionCall(r)[1].arguments)
       IN IF args.ok THEN Returned(args.val) ELSE MapCaught
  ELSE Returned(JUndef)

\* faulty variant of mapTranscriptionToCommandViaTools: args is an object that
\* wraps the filename, as in mapTranscriptionToCommand
mapTranscriptionToCommandViaTools_WrapsArgs(r) ==
  IF r.threw THEN MapCaught
  ELSE IF /\ FirstToolCall(r) # <<>>
          /\ FirstToolCall(r)[1].type = "function"
          /\ FirstToolCall(r)[1].function.arguments # <<>>
  THEN LET toolCall == FirstToolCall(r)[1]
           args == JSONParse(toolCall.function.arguments)
       IN IF ~args.ok \/ GetThrows(args.val) THEN MapCaught
          ELSE Returned(JObj([command |-> commandMap(toolCall.function.name),
                              args |-> JObj([filename |-> Get(args.val, "filename")])]))
  ELSE Returned(JUndef)

\* mapTranscriptionToCommandViaTools from the point where its request settles
mapTranscriptionToCommandViaTools(r) ==
  IF r.threw THEN MapCaught
  ELSE IF /\ FirstToolCall(r) # <<>>
          /\ FirstToolCall(r)[1].type = "function"
          /\ FirstToolCall(r)[1].function.arguments # <<>>
  THEN LET toolCall == FirstToolCall(r)[1]
           args == JSONParse(toolCall.function.arguments)
       IN IF ~args.ok \/ GetThrows(args.val) THEN MapCaught
          ELSE Returned(JObj([command |-> commandMap(toolCall.function.name),
                              args |-> Get(args.val, "filename")]))
  ELSE Returned(JUndef)

\* faulty variant of ExecCaught: the error is logged and thrown on
ExecCaught_Rethrows ==
  [outcome |-> "raised", result |-> JUndef, log |-> <<ExecErrorLog>>, notices |-> <<>>]

\* the catch block of executeCommand: log, notify, return
ExecCaught ==
  [outcome |-> "returned", result |-> JUndef,
   log |-> <<ExecErrorLog>>, notices |-> <<ExecErrorNotice>>]

\* executeCommand from the point where the host command settles
executeCommandSettled(hostOutcome) ==
  IF hostOutcome = "rejects" THEN ExecCaught ELSE Returned(JUndef)

\* faulty variant of MapCall: for a short text the call returns the mapping
\* the call before it returned
MapCall_ReturnsLast ==
  /\ mpc = "idle"
  /\ \E v \in {"functions", "tools"}, txt \in Texts :
       /\ variant' = v
       /\ text' = txt
       /\ reply' = <<>>
       /\ notifications' = <<>>
       /\ errorLog' = <<>>
       /\ hostCalls' = <<>>
       /\ hostReply' = <<>>
       /\ IF TooShort(txt)
          THEN /\ requests' = <<>>
               /\ result' = result
               /\ outcome' = "returned"
               /\ mpc' = "mapReturned"
               /\ Observed(v, txt, <<>>,
                           [requests |-> <<>>, result |-> result, outcome |-> "returned",
                            notifications |-> <<>>, errorLog |-> <<>>])
          ELSE /\ requests' = <<ChatRequest(v, txt)>>
               /\ result' = JUndef
               /\ outcome' = "pending"
               /\ mpc' = "mapAwait"
               /\ UNCHANGED <<probe, probed>>

\* a caller starts a mapping call on a transcription: the length guard, then
\* the request
MapCall ==
  /\ mpc = "idle"
  /\ \E v \in {"functions", "tools"}, txt \in Texts :
       /\ variant' = v
       /\ text' = txt
       /\ reply' = <<>>
       /\ notifications' = <<>>
       /\ errorLog' = <<>>
       /\ hostCalls' = <<>>
       /\ hostReply' = <<>>
       /\ IF TooShort(txt)
          THEN /\ requests' = <<>>
               /\ result' = JUndef
               /\ outcome' = "returned"
               /\ mpc' = "mapReturned"
               /\ Observed(v, txt, <<>>,
                           [requests |-> <<>>, result |-> JUndef, outcome |-> "returned",
                            notifications |-> <<>>, errorLog |-> <<>>])
          ELSE /\ requests' = <<ChatRequest(v, txt)>>
               /\ result' = JUndef
               /\ outcome' = "pending"
               /\ mpc' = "mapAwait"
               /\ UNCHANGED <<probe, probed>>

\* faulty variant of MapResume: a failed request is issued once more
MapResume_Retries ==
  /\ mpc = "mapAwait"
  /\ \E r \in Replies(variant) :
       IF r.threw /\ Len(requests) < 2
       THEN /\ requests' = Append(requests, ChatRequest(variant, text))
            /\ UNCHANGED <<mpc, reply, result, outcome, errorLog, notifications,
                           probe, probed>>
       ELSE LET o == IF variant = "functions"
                     THEN mapTranscriptionToCommand(r)
                     ELSE mapTranscriptionToCommandViaTools(r)
            IN /\ reply' = <<r>>
               /\ result' = o.result
               /\ outcome' = o.outcome
               /\ errorLog' = errorLog \o o.log
               /\ notifications' = notifications \o o.notices
               /\ mpc' = "mapReturned"
               /\ Observed(variant, text, <<r>>,
                           [requests |-> requests, result |-> o.result,
                            outcome |-> o.outcome,
                            notifications |-> notifications \o o.notices,
                            errorLog |-> errorLog \o o.log])
               /\ UNCHANGED requests
  /\ UNCHANGED <<variant, text, hostCalls, hostReply>>

\* the request settles and the mapping call runs to its return
MapResume ==
  /\ mpc = "mapAwait"
  /\ \E r \in Replies(variant) :
       LET o == IF variant = "functions"
                THEN mapTranscriptionToCommand(r)
                ELSE mapTranscriptionToCommandViaTools(r)
       IN /\ reply' = <<r>>
          /\ result' = o.result
          /\ outcome' = o.outcome
          /\ errorLog' = errorLog \o o.log
          /\ notifications' = notifications \o o.notices
          /\ mpc' = "mapReturned"
          /\ Observed(variant, text, <<r>>,
                      [requests |-> requests, result |-> o.result,
                       outcome |-> o.outcome,
                       notifications |-> notifications \o o.notices,
                       errorLog |-> errorLog \o o.log])
  /\ UNCHANGED <<variant, text, requests, hostCalls, hostReply>>

\* the caller hands the mapping it got (anything but undefined) to
\* executeCommand, which evaluates mapping.command and mapping.args inside its
\* try block (a TypeError for null) and invokes the host command
ExecuteCommandCall ==
  /\ mpc = "mapReturned"
  /\ outcome = "returned"
  /\ result # JUndef
  /\ hostReply' = <<>>
  /\ IF GetThrows(result)
     THEN /\ hostCalls' = <<>>
          /\ outcome' = ExecCaught.outcome
          /\ errorLog' = ExecCaught.log
          /\ notifications' = ExecCaught.notices
          /\ mpc' = "execReturned"
     ELSE /\ hostCalls' = <<[command |-> Get(result, "command"),
                             args |-> Get(result, "args")]>>
          /\ outcome' = "pending"
          /\ errorLog' = <<>>
          /\ notifications' = <<>>
          /\ mpc' = "execAwait"
  /\ UNCHANGED <<variant, text, requests, reply, result, probe, probed>>

\* the host command settles and executeCommand runs to its return
ExecuteCommandResume ==
  /\ mpc = "execAwait"
  /\ \E hostOutcome \in {"resolves", "rejects"} :
       LET o == executeCommandSettled(hostOutcome)
       IN /\ hostReply' = <<hostOutcome>>
          /\ outcome' = o.outcome
          /\ errorLog' = errorLog \o o.log
          /\ notifications' = notifications \o o.notices
  /\ mpc' = "execReturned"
  /\ UNCHANGED <<variant, text, requests, reply, result, hostCalls, probe, probed>>

\* the caller is done with this transcription
Release ==
  /\ mpc \in {"mapReturned", "execReturned"}
  /\ outcome = "returned"
  /\ mpc' = "idle"
  /\ UNCHANGED <<variant, text, requests, reply, result, outcome,
                 notifications, errorLog, hostCalls, hostReply, probe, probed>>

(***************************************************************************)
(* The extension: the module-level state object and the toggle-recording   *)
(* command.  An invocation of toggleRecordingCommand that reaches an await *)
(* occupies a slot of inv until it returns.                                *)
(*   speechTranscription  whether state.speechTranscription is defined     *)
(*   isRecording, isTranscribing  the flags of state                       *)
(*   recordingStartTime   "undefined" or "set"                             *)
(*   statusText           state.myStatusBarItem.text                       *)
(*   config               the recordingState setting ("" when unset)       *)
(*   recordingProcess     SpeechTranscription.recordingProcess: 0 for      *)
(*                        null, else the recorder process it refers to     *)
(*   liveRecorders        recorder processes started and not killed        *)
(*   spawned              recorder processes started so far                *)
(*   inv                  per slot, where the invocation is suspended:     *)
(*                        "free", "transcribing" (at the transcription     *)
(*                        call), "clipboard" (at clipboard.writeText),     *)
(*                        "delay" (at finalizeProgress's 2500 ms timer),   *)
(*                        and the branch ("testing" or "stop") it took     *)
(*   errorTimers          pending setTimeout(updateStatusBarItem, 3000)    *)
(*   lastToggle           what the latest toggle invocation did before its *)
(*                        first await: "none", "ignored", "started",       *)
(*                        "testing", "stopped"                             *)
(*   toggled              flips at every toggle invocation                 *)
(***************************************************************************)
VARIABLES speechTranscription, isRecording, isTranscribing, recordingStartTime,
          statusText, config, recordingProcess, liveRecorders, spawned, inv,
          errorTimers, lastToggle, toggled

extensionVars == <<speechTranscription, isRecording, isTranscribing,
                   recordingStartTime, statusText, config, recordingProcess,
                   liveRecorders, spawned, inv, errorTimers, lastToggle, toggled>>

Slots == 1..MaxInvocations
FreeSlot == [pc |-> "free", branch |-> "none"]

\* faulty variant of RecordingStateOf: an unset preference means 'regular'
RecordingStateOf_DefaultRegular(cfg) == IF cfg = "" THEN "regular" ELSE cfg

\* config.get('recordingState') || 'testing'
RecordingStateOf(cfg) == IF cfg = "" THEN "testing" ELSE cfg

\* the text updateStatusBarItem writes for the given flags
StatusTextOf(rec, startTime, trans) ==
  IF rec /\ startTime # "undefined" THEN "$(stop) m:ss"
  ELSE IF trans THEN "$(loading~spin)" ELSE "$(quote)"

\* the slot a newly suspended invocation takes
NextSlot == CHOOSE i \in Slots : inv[i].pc = "free" /\ \A j \in Slots : inv[j].pc = "free" => i <= j

\* faulty variant of ToggleAccepted: isTranscribing is not looked at
ToggleAccepted_WhileTranscribing == speechTranscription

\* the outer guard of toggleRecordingCommand
ToggleAccepted == speechTranscription /\ ~isTranscribing

\* a toggle that changes nothing: the outer guard is false, or the recorder
\* runs and the mode is testing
ToggleIgnored ==
  /\ \/ ~ToggleAccepted
     \/ isRecording /\ RecordingStateOf(config) = "testing"
  /\ lastToggle' = "ignored"
  /\ toggled' = ~toggled
  /\ UNCHANGED <<speechTranscription, isRecording, isTranscribing,
                 recordingStartTime, statusText, config, recordingProcess,
                 liveRecorders, spawned, inv, errorTimers>>

\* regular and new-recording mode, not recording: start the recorder
ToggleStart ==
  /\ ToggleAccepted
  /\ ~isRecording
  /\ RecordingStateOf(config) # "testing"
  /\ spawned < MaxRecorders
  /\ spawned' = spawned + 1
  /\ recordingProcess' = spawned + 1
  /\ liveRecorders' = liveRecorders \cup {spawned + 1}
  /\ recordingStartTime' = "set"
  /\ isRecording' = TRUE
  /\ statusText' = StatusTextOf(TRUE, "set", isTranscribing)
  /\ lastToggle' = "started"
  /\ toggled' = ~toggled
  /\ UNCHANGED <<speechTranscription, isTranscribing, config, inv, errorTimers>>

\* testing mode, not recording: start the recorder and go on to transcribe at
\* once; the invocation suspends at the transcription call
ToggleTesting ==
  /\ ToggleAccepted
  /\ ~isRecording
  /\ RecordingStateOf(config) = "testing"
  /\ spawned < MaxRecorders
  /\ \E i \in Slots : inv[i].pc = "free"
  /\ spawned' = spawned + 1
  /\ recordingProcess' = spawned + 1
  /\ liveRecorders' = liveRecorders \cup {spawned + 1}
  /\ recordingStartTime' = "set"
  /\ isRecording' = FALSE
  /\ isTranscribing' = TRUE
  /\ statusText' = StatusTextOf(FALSE, "set", TRUE)
  /\ inv' = [inv EXCEPT ![NextSlot] = [pc |-> "transcribing", branch |-> "testing"]]
  /\ lastToggle' = "testing"
  /\ toggled' = ~toggled
  /\ UNCHANGED <<speechTranscription, config, errorTimers>>

\* faulty variant of ToggleStop: isRecording is not cleared
ToggleStop_KeepsRecording ==
  /\ ToggleAccepted
  /\ isRecording
  /\ RecordingStateOf(config) # "testing"
  /\ \E i \in Slots : inv[i].pc = "free"
  /\ liveRecorders' = liveRecorders \ {recordingProcess}
  /\ recordingProcess' = 0
  /\ isTranscribing' = TRUE
  /\ isRecording' = isRecording
  /\ statusText' = StatusTextOf(isRecording, recordingStartTime, TRUE)
  /\ inv' = [inv EXCEPT ![NextSlot] = [pc |-> "transcribing", branch |-> "stop"]]
  /\ lastToggle' = "stopped"
  /\ toggled' = ~toggled
  /\ UNCHANGED <<speechTranscription, recordingStartTime, config, spawned, errorTimers>>

\* regular and new-recording mode, recording: stop the recorder and
\* transcribe; the invocation suspends at the transcription call
ToggleStop ==
  /\ ToggleAccepted
  /\ isRecording
  /\ RecordingStateOf(config) # "testing"
  /\ \E i \in Slots : inv[i].pc = "free"
  /\ liveRecorders' = liveRecorders \ {recordingProcess}
  /\ recordingProcess' = 0
  /\ isTranscribing' = TRUE
  /\ isRecording' = FALSE
  /\ statusText' = StatusTextOf(FALSE, recordingStartTime, TRUE)
  /\ inv' = [inv EXCEPT ![NextSlot] = [pc |-> "transcribing", branch |-> "stop"]]
  /\ lastToggle' = "stopped"
  /\ toggled' = ~toggled
  /\ UNCHANGED <<speechTranscription, recordingStartTime, config, spawned, errorTimers>>

\* finalizeProgress up to its timer: clear the flags, refresh the status bar
\* and suspend for 2500 ms
finalizeProgress(i) ==
  /\ isTranscribing' = FALSE
  /\ recordingStartTime' = "undefined"
  /\ statusText' = StatusTextOf(isRecording, "undefined", FALSE)
  /\ inv' = [inv EXCEPT ![i].pc = "delay"]
  /\ UNCHANGED errorTimers

\* state.speechTranscription.deleteFiles(true) returns (TRUE) or throws
\* (FALSE).  The method is not among the sources; it is taken to return.
deleteFiles == TRUE

\* the finally block of invocation i gets to its assignments: the stop branch
\* calls deleteFiles(true) before them when there is an instance
FinallyClears(i) ==
  (inv[i].branch = "stop" /\ speechTranscription) => deleteFiles

\* the finally block of invocation i: the flags cleared and the status bar
\* refreshed, unless deleteFiles threw; the invocation is over
Finally(i, text0) ==
  /\ IF FinallyClears(i)
     THEN /\ isTranscribing' = FALSE
          /\ recordingStartTime' = "undefined"
          /\ statusText' = StatusTextOf(isRecording, "undefined", FALSE)
     ELSE /\ statusText' = text0
          /\ UNCHANGED <<isTranscribing, recordingStartTime>>
  /\ inv' = [inv EXCEPT ![i] = FreeSlot]

\* faulty variant of ToggleFailed: the catch block without the finally block
ToggleFailed_NoFinally(i) ==
  /\ errorTimers' = errorTimers + 1
  /\ statusText' = "$(error) Transcription failed"
  /\ inv' = [inv EXCEPT ![i] = FreeSlot]
  /\ UNCHANGED <<isTranscribing, recordingStartTime>>

\* the catch and finally blocks after the progress task rejected: the error
\* text and its 3000 ms timer, then the finally block
ToggleFailed(i) ==
  /\ errorTimers' = errorTimers + 1
  /\ Finally(i, "$(error) Transcription failed")

\* the transcription call of invocation i settles: with a transcription, with
\* undefined, or by throwing.  The call site awaits
\* state.speechTranscription.transcribeRecording(); the class among the
\* sources names its transcription method processRecording, which returns a
\* Transcription or undefined.  What the awaited call does is left open here:
\* any of the three settlements may happen.
TranscriptionSettles ==
  \E i \in Slots, settled \in {"transcription", "undefined", "throws"} :
    /\ inv[i].pc = "transcribing"
    /\ CASE settled = "transcription" ->
              /\ inv' = [inv EXCEPT ![i].pc = "clipboard"]
              /\ UNCHANGED <<isTranscribing, recordingStartTime, statusText, errorTimers>>
         [] settled = "undefined" -> finalizeProgress(i)
         [] settled = "throws" -> ToggleFailed(i)
    /\ UNCHANGED <<speechTranscription, isRecording, config, recordingProcess,
                   liveRecorders, spawned, lastToggle, toggled>>

\* clipboard.writeText of invocation i settles
ClipboardSettles ==
  \E i \in Slots, written \in BOOLEAN :
    /\ inv[i].pc = "clipboard"
    /\ IF written THEN finalizeProgress(i) ELSE ToggleFailed(i)
    /\ UNCHANGED <<speechTranscription, isRecording, config, recordingProcess,
                   liveRecorders, spawned, lastToggle, toggled>>

\* the 2500 ms timer of invocation i fires: the finally block runs and the
\* invocation returns
DelayElapses ==
  \E i \in Slots :
    /\ inv[i].pc = "delay"
    /\ Finally(i, statusText)
    /\ UNCHANGED <<speechTranscription, isRecording, config, recordingProcess,
                   liveRecorders, spawned, errorTimers, lastToggle, toggled>>

\* a 3000 ms timer set by a catch block fires: updateStatusBarItem
StatusTimerFires ==
  /\ errorTimers > 0
  /\ errorTimers' = errorTimers - 1
  /\ statusText' = StatusTextOf(isRecording, recordingStartTime, isTranscribing)
  /\ UNCHANGED <<speechTranscription, isRecording, isTranscribing,
                 recordingStartTime, config, recordingProcess, liveRecorders,
                 spawned, inv, lastToggle, toggled>>

\* deactivate: the state object is reset
deactivate ==
  /\ speechTranscription
  /\ isRecording' = FALSE
  /\ isTranscribing' = FALSE
  /\ speechTranscription' = FALSE
  /\ recordingStartTime' = "undefined"
  /\ UNCHANGED <<statusText, config, recordingProcess, liveRecorders, spawned,
                 inv, errorTimers, lastToggle, toggled>>

\* the user edits the recordingState setting
ChangeRecordingState ==
  /\ \E c \in {"", "regular", "testing", "new-recording"} :
       /\ c # config
       /\ config' = c
  /\ UNCHANGED <<speechTranscription, isRecording, isTranscribing,
                 recordingStartTime, statusText, recordingProcess,
                 liveRecorders, spawned, inv, errorTimers, lastToggle, toggled>>

\* the state after activate
ExtensionInit ==
  /\ speechTranscription = TRUE
  /\ isRecording = FALSE
  /\ isTranscribing = FALSE
  /\ recordingStartTime = "undefined"
  /\ statusText = "$(quote)"
  /\ config \in {"", "regular", "testing", "new-recording"}
  /\ recordingProcess = 0
  /\ liveRecorders = {}
  /\ spawned = 0
  /\ inv = [i \in Slots |-> FreeSlot]
  /\ errorTimers = 0
  /\ lastToggle = "none"
  /\ toggled = FALSE

(***************************************************************************)
(* SpeechTranscription.processRecording.                                   *)
(*   ppc            where the call stands: "idle", "transcribing" (at the  *)
(*                  speech engine), "completing" (at the chat completion), *)
(*                  "executing" (at the host command), "writing" (at       *)
(*                  writeFile), "returned"                                 *)
(*   transcription  <<>> or <<t>>, the response of the speech engine       *)
(*   completion     <<>> or <<c>>, the value of the const completion       *)
(*   processedText  the local processedText                                *)
(*   commandObject  the local commandObject                                *)
(*   recResult      <<>> or <<r>>, the const result                        *)
(*   recHostCalls   vscode.commands.executeCommand calls of this call,     *)
(*                  each with the sequence of arguments after the command  *)
(*   tempFile       <<>> or <<r>>, the value serialised into the .json     *)
(*                  file by this call                                      *)
(*   recReturn      "pending", "undefined" or "result": what the call      *)
(*                  returned                                               *)
(*   recNotices     vscode.window.showErrorMessage calls of this call      *)
(*   outputLog      error lines appended to the output channel             *)
(***************************************************************************)
VARIABLES ppc, transcription, completion, processedText, commandObject,
          recResult, recHostCalls, tempFile, recReturn, recNotices, outputLog

recordingVars == <<ppc, transcription, completion, processedText, commandObject,
                   recResult, recHostCalls, tempFile, recReturn, recNotices,
                   outputLog>>

ParseErrorLog == "Whisper Assistant: Error parsing function arguments:"
HostErrorLog == "Whisper Assistant: Error executing command:"
RecordingErrorLog == "Whisper Assistant: error:"
\* the messages of the errors that reach the outer catch block, as shown by
\* showErrorMessage
EngineErrorNotice == "Whisper Assistant: <message of the transcription request's error>"
CompletionErrorNotice == "Whisper Assistant: <message of the chat request's error>"
TypeErrorNotice == "Whisper Assistant: Cannot read properties of undefined (reading '0')"
WriteErrorNotice == "Whisper Assistant: <message of writeFile's error>"

\* a segment of the speech engine's verbose_json response
EngineSegment(txt) ==
  [id |-> 0, seek |-> 1, start |-> 0, end |-> 2, text |-> txt,
   tokens |-> <<"t1">>, temperature |-> 1]

\* responses of audio.transcriptions.create: text, segments (<<>> when the
\* member is missing, else <<list>>) and language; or the request is rejected
EngineResponses ==
  {[threw |-> FALSE, text |-> txt, segments |-> segs, language |-> "english"] :
     txt \in Texts, segs \in {<<>>, << <<>> >>, << <<EngineSegment("ok")>> >>}}
EngineFails == [threw |-> TRUE, text |-> <<>>, segments |-> <<>>, language |-> ""]

SearchTerms == {"todo"}

\* the arguments string of the function_call of processRecording's request
RecordingPayloads ==
  FunctionPayloads
  \cup {Stringify(JObj([command |-> JStr(c),
                        args |-> JObj([searchTerm |-> JStr(s)])])) :
          c \in {"workbench.action.findInFiles"}, s \in SearchTerms}
  \cup {Stringify(JObj([command |-> JStr(c),
                        args |-> JObj([filename |-> JStr(f), searchTerm |-> JStr(s)])])) :
          c \in {"workbench.action.findInFiles", "workbench.action.quickOpen"},
          f \in Filenames, s \in SearchTerms}
  \cup { Stringify(JObj([command |-> JStr("")])),
         Stringify(JObj([command |-> JStr("workbench.action.quickOpen"),
                         args |-> JStr("config")])),
         Stringify(JObj([command |-> JStr("workbench.action.quickOpen"),
                         args |-> JObj([filename |-> JStr("")])])),
         Stringify(JObj([args |-> JObj([filename |-> JStr("config")])])) }

\* replies to the chat-completion request of processRecording
RecordingReplies ==
  { RequestFails, Completion(<<>>), Completion(<<NoMessage>>),
    Completion(<<Choice(<<>>, <<>>)>>),
    Completion(<<Choice(<<>>, <<>>), Choice(<<SaveCall>>, <<>>)>>) }
  \cup {Completion(<<Choice(<<[name |-> "executeVSCodeCommand", arguments |-> p]>>, <<>>)>>) :
          p \in RecordingPayloads}

\* the value of  transcription.text.length > 2 && (await ...)  when the left
\* operand is false
CompletionFalse == [threw |-> FALSE, choices |-> <<>>, isFalse |-> TRUE]
CompletionOf(r) == [threw |-> r.threw, choices |-> r.choices, isFalse |-> FALSE]

\* completion?.choices[0] throws a TypeError: ?. short-circuits on null and
\* undefined only, so for completion = false the member choices is read from
\* the boolean (undefined) and then indexed
FirstChoiceThrows(c) == c.isFalse

\* `${v}` of a template literal, as a sequence of pieces (none for '')
TemplateText(v) ==
  CASE v.t = "string" -> (IF v.s = "" THEN <<>> ELSE <<v.s>>)
    [] v.t = "undefined" -> <<"undefined">>
    [] v.t = "null" -> <<"null">>
    [] OTHER -> <<"[object Object]">>

\* v?.k
OptGet(v, k) == IF GetThrows(v) THEN JUndef ELSE Get(v, k)

\* the initial values of processedText and commandObject
NoneText == <<"none">>
NoCommand == [command |-> JStr(""), args |-> <<>>]

\* the interpretation of the function call: processedText, commandObject and
\* the line the inner catch block logs
InterpretFunctionCall(functionCall) ==
  IF functionCall = <<>> \/ functionCall[1].arguments = <<>>
  THEN [processedText |-> NoneText, commandObject |-> NoCommand, log |-> <<>>]
  ELSE LET parsed == JSONParse(functionCall[1].arguments)
       IN IF ~parsed.ok \/ GetThrows(parsed.val)
          THEN [processedText |-> NoneText, commandObject |-> NoCommand,
                log |-> <<ParseErrorLog>>]
          ELSE LET args == parsed.val
                   inner == Get(args, "args")
               IN [processedText |->
                     TemplateText(Get(args, "command"))
                     \o (IF Truthy(inner) THEN <<" ">> \o Stringify(inner) ELSE <<>>),
                   commandObject |->
                     [command |-> Get(args, "command"),
                      args |-> SelectSeq(<<OptGet(inner, "filename"),
                                           OptGet(inner, "searchTerm")>>, Truthy)],
                   log |-> <<>>]

\* one segment of result.segments
ConvertSegment(seg) ==
  [id |-> seg.id, seek |-> 0, start |-> seg.start, end |-> seg.end,
   text |-> seg.text, tokens |-> <<>>, temperature |-> 0]

\* the Transcription built from processedText and the engine's response
TranscriptionOf(ptext, t) ==
  [text |-> ptext,
   segments |-> IF t.segments = <<>> THEN <<>>
                ELSE [i \in 1..Len(t.segments[1]) |-> ConvertSegment(t.segments[1][i])],
   language |-> t.language]

\* the outer catch block: log, notify with the error's message, return
\* undefined
RecordingCaught(notice) ==
  /\ outputLog' = Append(outputLog, RecordingErrorLog)
  /\ recNotices' = Append(recNotices, notice)
  /\ recReturn' = "undefined"
  /\ ppc' = "returned"

\* processRecording is called: up to the request to the speech engine
ProcessRecordingCall ==
  /\ ppc \in {"idle", "returned"}
  /\ ppc' = "transcribing"
  /\ transcription' = <<>>
  /\ completion' = <<>>
  /\ processedText' = NoneText
  /\ commandObject' = NoCommand
  /\ recResult' = <<>>
  /\ recHostCalls' = <<>>
  /\ tempFile' = <<>>
  /\ recReturn' = "pending"
  /\ recNotices' = <<>>
  /\ outputLog' = <<>>

\* completion?.choices[0]?.message?.function_call : the lookup throws, or gives
\* <<>> (undefined) or <<functionCall>>
LookupFunctionCall(c) ==
  IF FirstChoiceThrows(c) THEN [threw |-> TRUE, functionCall |-> <<>>]
  ELSE [threw |-> FALSE, functionCall |-> FirstFunctionCall(c)]

\* processRecording from the point where completion has its value c, up to its
\* next await: the function call is looked up and interpreted, the result
\* built, and the host command invoked when commandObject.command is truthy
Interpreted(c, t) ==
  IF LookupFunctionCall(c).threw
  THEN /\ RecordingCaught(TypeErrorNotice)
       /\ UNCHANGED <<processedText, commandObject, recResult, recHostCalls>>
  ELSE LET i == InterpretFunctionCall(LookupFunctionCall(c).functionCall)
       IN /\ processedText' = i.processedText
          /\ commandObject' = i.commandObject
          /\ recResult' = <<TranscriptionOf(i.processedText, t)>>
          /\ outputLog' = outputLog \o i.log
          /\ IF Truthy(i.commandObject.command)
             THEN /\ recHostCalls' = <<i.commandObject>>
                  /\ ppc' = "executing"
             ELSE /\ recHostCalls' = <<>>
                  /\ ppc' = "writing"
          /\ UNCHANGED <<recReturn, recNotices>>

\* the speech engine settles: for a text longer than 2 the chat completion is
\* requested; for a shorter one completion is false and the call goes on
TranscriptionCreated ==
  /\ ppc = "transcribing"
  /\ \E t \in EngineResponses \cup {EngineFails} :
       IF t.threw
       THEN /\ RecordingCaught(EngineErrorNotice)
            /\ UNCHANGED <<transcription, completion, processedText,
                           commandObject, recResult, recHostCalls>>
       ELSE /\ transcription' = <<t>>
            /\ IF Len(t.text) > 2
               THEN /\ ppc' = "completing"
                    /\ UNCHANGED <<completion, processedText, commandObject,
                                   recResult, recHostCalls, recReturn,
                                   recNotices, outputLog>>
               ELSE /\ completion' = <<CompletionFalse>>
                    /\ Interpreted(CompletionFalse, t)
  /\ UNCHANGED tempFile

\* the chat completion settles
CompletionCreated ==
  /\ ppc = "completing"
  /\ \E r \in RecordingReplies :
       IF r.threw
       THEN /\ RecordingCaught(CompletionErrorNotice)
            /\ UNCHANGED <<completion, processedText, commandObject, recResult,
                           recHostCalls>>
       ELSE /\ completion' = <<CompletionOf(r)>>
            /\ Interpreted(CompletionOf(r), transcription[1])
  /\ UNCHANGED <<transcription, tempFile>>

\* the host command settles; a rejection is logged and nothing else
HostCommandSettles ==
  /\ ppc = "executing"
  /\ \E hostOutcome \in {"resolves", "rejects"} :
       outputLog' = IF hostOutcome = "rejects"
                    THEN Append(outputLog, HostErrorLog) ELSE outputLog
  /\ ppc' = "writing"
  /\ UNCHANGED <<transcription, completion, processedText, commandObject,
                 recResult, recHostCalls, tempFile, recReturn, recNotices>>

\* writeFile settles: the call returns the result (undefined for an empty
\* text), or the rejection lands in the outer catch block
WriteFileSettles ==
  /\ ppc = "writing"
  /\ \E written \in BOOLEAN :
       IF written
       THEN /\ tempFile' = recResult
            /\ recReturn' = IF recResult[1].text = <<>> THEN "undefined" ELSE "result"
            /\ ppc' = "returned"
            /\ UNCHANGED <<recNotices, outputLog>>
       ELSE RecordingCaught(WriteErrorNotice) /\ UNCHANGED tempFile
  /\ UNCHANGED <<transcription, completion, processedText, commandObject,
                 recResult, recHostCalls>>

RecordingInit ==
  /\ ppc = "idle"
  /\ transcription = <<>>
  /\ completion = <<>>
  /\ processedText = NoneText
  /\ commandObject = NoCommand
  /\ recResult = <<>>
  /\ recHostCalls = <<>>
  /\ tempFile = <<>>
  /\ recReturn = "pending"
  /\ recNotices = <<>>
  /\ outputLog = <<>>

vars == <<mapperVars, extensionVars, recordingVars>>

\* the mapper after construction, no call made yet
MapperFresh ==
  /\ mpc = "idle"
  /\ variant = "functions"
  /\ text = <<>>
  /\ requests = <<>>
  /\ reply = <<>>
  /\ result = JUndef
  /\ outcome = "returned"
  /\ notifications = <<>>
  /\ errorLog = <<>>
  /\ hostCalls = <<>>
  /\ hostReply = <<>>
  /\ probed = <<>>

MapperInit == MapperFresh /\ probe = NoProbe

Init == MapperInit /\ ExtensionInit /\ RecordingInit

\* the command mapper on its own
Next ==
  \/ (MapCall /\ UNCHANGED <<extensionVars, recordingVars>>)
  \/ (MapResume /\ UNCHANGED <<extensionVars, recordingVars>>)
  \/ (ExecuteCommandCall /\ UNCHANGED <<extensionVars, recordingVars>>)
  \/ (ExecuteCommandResume /\ UNCHANGED <<extensionVars, recordingVars>>)
  \/ (Release /\ UNCHANGED <<extensionVars, recordingVars>>)

Spec == Init /\ [][Next]_vars

\* the command mapper with one input under observation
HistoryInit ==
  MapperFresh /\ probe \in Probes /\ ExtensionInit /\ config = "" /\ RecordingInit

HistorySpec == HistoryInit /\ [][Next]_vars

\* the toggle-recording lifecycle of the extension
LifecycleNext ==
  \/ (ToggleIgnored /\ UNCHANGED <<mapperVars, recordingVars>>)
  \/ (ToggleStart /\ UNCHANGED <<mapperVars, recordingVars>>)
  \/ (ToggleTesting /\ UNCHANGED <<mapperVars, recordingVars>>)
  \/ (ToggleStop /\ UNCHANGED <<mapperVars, recordingVars>>)
  \/ (TranscriptionSettles /\ UNCHANGED <<mapperVars, recordingVars>>)
  \/ (ClipboardSettles /\ UNCHANGED <<mapperVars, recordingVars>>)
  \/ (DelayElapses /\ UNCHANGED <<mapperVars, recordingVars>>)
  \/ (StatusTimerFires /\ UNCHANGED <<mapperVars, recordingVars>>)
  \/ (deactivate /\ UNCHANGED <<mapperVars, recordingVars>>)
  \/ (ChangeRecordingState /\ UNCHANGED <<mapperVars, recordingVars>>)

LifecycleSpec == Init /\ [][LifecycleNext]_vars

\* the lifecycle where every awaited call settles and every timer fires
LifecycleFairSpec ==
  /\ LifecycleSpec
  /\ WF_vars(TranscriptionSettles /\ UNCHANGED <<mapperVars, recordingVars>>)
  /\ WF_vars(ClipboardSettles /\ UNCHANGED <<mapperVars, recordingVars>>)
  /\ WF_vars(DelayElapses /\ UNCHANGED <<mapperVars, recordingVars>>)

\* processRecording on its own
RecordingNext ==
  \/ (ProcessRecordingCall /\ UNCHANGED <<mapperVars, extensionVars>>)
  \/ (TranscriptionCreated /\ UNCHANGED <<mapperVars, extensionVars>>)
  \/ (CompletionCreated /\ UNCHANGED <<mapperVars, extensionVars>>)
  \/ (HostCommandSettles /\ UNCHANGED <<mapperVars, extensionVars>>)
  \/ (WriteFileSettles /\ UNCHANGED <<mapperVars, extensionVars>>)

RecordingSpec == Init /\ [][RecordingNext]_vars

(***************************************************************************)
(* Properties.                                                             *)
(***************************************************************************)
\* the first choice of reply r carries a function call
HasFirstFunctionCall(r) ==
  /\ ~r.threw
  /\ Len(r.choices) >= 1
  /\ r.choices[1].message # <<>>
  /\ r.choices[1].message[1].function_call # <<>>
FirstFunctionArguments(r) == r.choices[1].message[1].function_call[1].arguments

\* the first choice of reply r carries a tool call
HasFirstToolCall(r) ==
  /\ ~r.threw
  /\ Len(r.choices) >= 1
  /\ r.choices[1].message # <<>>
  /\ Len(r.choices[1].message[1].tool_calls) >= 1
FirstTool(r) == r.choices[1].message[1].tool_calls[1]

EnumCommands == {JStr(c) : c \in CommandEnum}

\* the model declined to call a function (or a tool)
Declined(v, r) ==
  /\ ~r.threw
  /\ v = "functions" => ~HasFirstFunctionCall(r)
  /\ v = "tools" => ~HasFirstToolCall(r)

\* the arguments of the call do not parse
Unparsable(v, r) ==
  \/ v = "functions" /\ HasFirstFunctionCall(r)
       /\ FirstFunctionArguments(r) \in MalformedPayloads
  \/ v = "tools" /\ HasFirstToolCall(r) /\ FirstTool(r).type = "function"
       /\ FirstTool(r).function.arguments \in MalformedPayloads

\* the reply names a command outside the enumeration
ForeignCommand(v, r) ==
  \/ v = "functions" /\ HasFirstFunctionCall(r)
       /\ \E m \in MappingShapes :
            /\ FirstFunctionArguments(r) = Stringify(m)
            /\ m.props["command"] = JStr(OtherCommand)
  \/ v = "tools" /\ HasFirstToolCall(r) /\ FirstTool(r).type = "function"
       /\ FirstTool(r).function.name = OtherTool
       /\ FirstTool(r).function.arguments \in {<<"{", "}">>, <<"{", "filename", ":", "config", "}">>}

\* C1: a mapping call (either variant) on a text of length <= 2 returns
\* undefined, issues no request to the language model (it never suspends at
\* one) and shows no notification.
C1_ShortTextAbsent ==
  /\ mpc = "mapAwait" => Len(text) > 2
  /\ (mpc = "mapReturned" /\ Len(text) <= 2)
       => /\ result = JUndef
          /\ outcome = "returned"
          /\ requests = <<>>
          /\ reply = <<>>
          /\ notifications = <<>>

C1_Witness ==
  /\ mpc = "mapReturned"
  /\ variant = "tools"
  /\ Len(text) = 2
  /\ result = JUndef
  /\ requests = <<>>

\* C2: when the text is longer than 2 and the first choice of the reply
\* carries a function call whose arguments are the JSON text of a value m of
\* the shape {command, args?}, mapTranscriptionToCommand returns exactly m.
C2_ReturnsParsedStructure ==
  \A m \in MappingShapes :
    ( /\ mpc = "mapReturned"
      /\ variant = "functions"
      /\ Len(text) > 2
      /\ reply # <<>>
      /\ HasFirstFunctionCall(reply[1])
      /\ FirstFunctionArguments(reply[1]) = Stringify(m) )
    => (result = m /\ outcome = "returned" /\ notifications = <<>>)

C2_Witness ==
  /\ mpc = "mapReturned"
  /\ variant = "functions"
  /\ reply # <<>>
  /\ HasFirstFunctionCall(reply[1])
  /\ FirstFunctionArguments(reply[1]) =
       <<"{", "command", ":", "workbench.action.quickOpen", ",",
         "args", ":", "{", "filename", ":", "config", "}", "}">>
  /\ result = JObj([command |-> JStr("workbench.action.quickOpen"),
                    args |-> JObj([filename |-> JStr("config")])])

\* C3: a reply that names a command outside the six-item enumeration (or a
\* tool outside the table) is rejected: no mapping made from it reaches
\* executeCommand, and every command that executeCommand passes to the host
\* by name is one of the six.
C3_ExecutedCommandInEnum ==
  /\ (reply # <<>> /\ ForeignCommand(variant, reply[1])) => hostCalls = <<>>
  /\ \A i \in DOMAIN hostCalls :
       hostCalls[i].command.t = "string" => hostCalls[i].command \in EnumCommands

\* C4: when the reply has no choices, or its first choice has no function
\* call, mapTranscriptionToCommand returns undefined.
C4_NoFunctionCallAbsent ==
  ( /\ mpc = "mapReturned"
    /\ variant = "functions"
    /\ reply # <<>>
    /\ ~reply[1].threw
    /\ ~HasFirstFunctionCall(reply[1]) )
  => (result = JUndef /\ outcome = "returned")

C4_Witness ==
  /\ mpc = "mapReturned"
  /\ variant = "functions"
  /\ reply = <<Completion(<<Choice(<<>>, <<>>), Choice(<<SaveCall>>, <<>>)>>)>>
  /\ result = JUndef

\* C5: when the arguments of the function call are a malformed JSON text,
\* mapTranscriptionToCommand returns undefined, shows exactly one
\* notification and does not raise.
C5_MalformedArguments ==
  ( /\ mpc = "mapReturned"
    /\ variant = "functions"
    /\ reply # <<>>
    /\ HasFirstFunctionCall(reply[1])
    /\ FirstFunctionArguments(reply[1]) \in MalformedPayloads )
  => (result = JUndef /\ Len(notifications) = 1 /\ outcome = "returned")

C5_Witness ==
  /\ mpc = "mapReturned"
  /\ variant = "functions"
  /\ reply # <<>>
  /\ HasFirstFunctionCall(reply[1])
  /\ FirstFunctionArguments(reply[1]) = <<"{", "command", ":">>
  /\ notifications = <<MapErrorNotice>>
  /\ outcome = "returned"

\* C6: every failure (the request throws, the arguments do not parse, the
\* model declines to call a function, the command is outside the enumeration,
\* the host command fails) is caught by the operation it occurs in, logged,
\* notified to the user, and resolves to undefined.
C6_EveryFailureCaughtLoggedNotified ==
  /\ ( /\ mpc = "mapReturned"
       /\ reply # <<>>
       /\ \/ reply[1].threw
          \/ Unparsable(variant, reply[1])
          \/ Declined(variant, reply[1])
          \/ ForeignCommand(variant, reply[1]) )
     => /\ outcome = "returned"
        /\ result = JUndef
        /\ Len(errorLog) >= 1
        /\ Len(notifications) >= 1
  /\ (mpc = "execReturned" /\ hostReply = <<"rejects">>)
     => /\ outcome = "returned"
        /\ Len(errorLog) >= 1
        /\ Len(notifications) >= 1

\* C7: executeCommand returns to its caller whatever the host command does,
\* invokes the host command at most once, and when the host command fails it
\* has logged the error once and shown one notification.
C7_ExecuteNeverRaises ==
  /\ mpc \in {"execAwait", "execReturned"} => Len(hostCalls) <= 1
  /\ mpc = "execReturned" => outcome = "returned"
  /\ (mpc = "execReturned" /\ hostReply = <<"rejects">>)
       => (errorLog = <<ExecErrorLog>> /\ notifications = <<ExecErrorNotice>>)
  /\ (mpc = "execReturned" /\ hostReply = <<"resolves">>)
       => (errorLog = <<>> /\ notifications = <<>>)

C7_Witness ==
  /\ mpc = "execReturned"
  /\ hostReply = <<"rejects">>
  /\ Len(hostCalls) = 1
  /\ outcome = "returned"
  /\ notifications = <<ExecErrorNotice>>

\* C8: a mapping call (either variant) has issued exactly one request when
\* its text is longer than 2 and none otherwise; when the request fails the
\* call returns undefined with one notification and still one request.
C8_OneRequestNoRetry ==
  /\ mpc \in {"mapAwait", "mapReturned"}
       => Len(requests) = (IF Len(text) > 2 THEN 1 ELSE 0)
  /\ (mpc = "mapReturned" /\ reply # <<>> /\ reply[1].threw)
       => /\ result = JUndef
          /\ outcome = "returned"
          /\ Len(notifications) = 1
          /\ Len(requests) = 1

C8_Witness ==
  /\ mpc = "mapReturned"
  /\ variant = "tools"
  /\ reply = <<RequestFails>>
  /\ Len(requests) = 1
  /\ notifications = <<MapErrorNotice>>

\* the lookup table as the claim states it
ClaimedHostCommand(n) ==
  CASE n = "quickOpen" -> "workbench.action.quickOpen"
    [] n = "newFile" -> "workbench.action.files.newUntitledFile"
    [] n = "saveFile" -> "workbench.action.files.save"
    [] n = "closeEditor" -> "workbench.action.closeActiveEditor"
    [] n = "findInFiles" -> "workbench.action.findInFiles"
    [] n = "findReferences" -> "references-view.findReferences"

\* the first tool call of the reply is a function call of tool n with a
\* non-empty arguments string
SelectsTool(n) ==
  /\ mpc = "mapReturned"
  /\ variant = "tools"
  /\ reply # <<>>
  /\ HasFirstToolCall(reply[1])
  /\ FirstTool(reply[1]).type = "function"
  /\ FirstTool(reply[1]).function.name = n
  /\ FirstTool(reply[1]).function.arguments # <<>>

commandMapInjective ==
  \A a, b \in ToolNames : commandMap(a) = commandMap(b) => a = b

\* C9 as stated: for each of the six tool names selected as the first tool
\* call with non-empty arguments, mapTranscriptionToCommandViaTools returns a
\* mapping whose command is the host command of the table; the table is
\* injective.
C9_ToolTableAnyArguments ==
  /\ commandMapInjective
  /\ \A n \in ToolNames :
       SelectsTool(n) =>
         (result.t = "object" /\ Get(result, "command") = JStr(ClaimedHostCommand(n)))

\* C9 amended: the same, for arguments that decode as JSON to a value other
\* than null.
C9_ToolTable ==
  /\ commandMapInjective
  /\ \A n \in ToolNames :
       ( /\ SelectsTool(n)
         /\ FirstTool(reply[1]).function.arguments \notin MalformedPayloads
         /\ FirstTool(reply[1]).function.arguments # <<"null">> )
       => (result.t = "object" /\ Get(result, "command") = JStr(ClaimedHostCommand(n)))

C9_Witness ==
  /\ SelectsTool("findReferences")
  /\ FirstTool(reply[1]).function.arguments = <<"{", "filename", ":", "config", "}">>
  /\ result.t = "object"
  /\ Get(result, "command") = JStr("references-view.findReferences")

\* C10: no two transcription calls are outstanding at the same time.
C10_OneTranscriptionAtATime ==
  Cardinality({i \in Slots : inv[i].pc = "transcribing"}) <= 1

\* C11: every host command invocation of processRecording passes, after the
\* command, no argument or one string argument, never two or more
C11_AtMostOneStringArgument ==
  \A i \in DOMAIN recHostCalls :
    /\ Len(recHostCalls[i].args) <= 1
    /\ \A j \in DOMAIN recHostCalls[i].args : recHostCalls[i].args[j].t = "string"

\* C12: the mapping mapTranscriptionToCommandViaTools returns has as args the
\* bare filename of the tool call's arguments (a string, undefined when the
\* arguments name none), where mapTranscriptionToCommand returns for the same
\* filename the object {filename} of the function call's arguments
C12_ToolsArgsBareFilename ==
  (mpc = "mapReturned" /\ reply # <<>>) =>
    /\ \A f \in Filenames :
         /\ ( /\ variant = "tools"
              /\ HasFirstToolCall(reply[1])
              /\ FirstTool(reply[1]).type = "function"
              /\ FirstTool(reply[1]).function.arguments
                   = <<"{", "filename", ":", f, "}">> )
            => (result.t = "object" /\ Get(result, "args") = JStr(f))
         /\ ( /\ variant = "functions"
              /\ HasFirstFunctionCall(reply[1])
              /\ \E c \in CommandEnum :
                   FirstFunctionArguments(reply[1])
                     = <<"{", "command", ":", c, ",", "args", ":",
                         "{", "filename", ":", f, "}", "}">> )
            => ( /\ result.t = "object"
                 /\ Get(result, "args") = JObj([filename |-> JStr(f)])
                 /\ Get(result, "args") # JStr(f) )
    /\ ( /\ variant = "tools"
         /\ HasFirstToolCall(reply[1])
         /\ FirstTool(reply[1]).type = "function"
         /\ FirstTool(reply[1]).function.arguments = <<"{", "}">> )
       => (result.t = "object" /\ Get(result, "args") = JUndef)

\* a tools mapping whose args is the bare string
C12_Witness ==
  /\ mpc = "mapReturned"
  /\ variant = "tools"
  /\ result.t = "object"
  /\ Get(result, "command") = JStr("workbench.action.quickOpen")
  /\ Get(result, "args") = JStr("config")

\* C13: two mapping calls with the same variant, text and reply issue the same
\* request and return the same result with the same notifications and log,
\* whatever calls were made before and between them
C13_MappingCallsIndependent ==
  Len(probed) = 2 => probed[1] = probed[2]

\* the observed input was mapped twice, the second time to a mapping
C13_Witness ==
  /\ Len(probed) = 2
  /\ probed[2].result = JObj([command |-> JStr("workbench.action.files.save")])
  /\ mpc = "mapReturned"
  /\ [variant |-> variant, text |-> text, reply |-> reply] # probe

\* the segments of the speech engine's response t ([] when it has none)
EngineSegmentsOf(t) == IF t.segments = <<>> THEN <<>> ELSE t.segments[1]

\* C14: the Transcription processRecording returns, which is also the one
\* written to the temp file, has as text the text of the speech engine's
\* response, and that response's language and segments (their id, start, end
\* and text)
C14_ResultCarriesRawText ==
  (ppc = "returned" /\ recReturn = "result") =>
    /\ tempFile = recResult
    /\ recResult[1].language = transcription[1].language
    /\ Len(recResult[1].segments) = Len(EngineSegmentsOf(transcription[1]))
    /\ \A i \in DOMAIN recResult[1].segments :
         /\ recResult[1].segments[i].id = EngineSegmentsOf(transcription[1])[i].id
         /\ recResult[1].segments[i].start = EngineSegmentsOf(transcription[1])[i].start
         /\ recResult[1].segments[i].end = EngineSegmentsOf(transcription[1])[i].end
         /\ recResult[1].segments[i].text = EngineSegmentsOf(transcription[1])[i].text
    /\ recResult[1].text = transcription[1].text

\* C15: a toggle taken while idle (not recording, not transcribing) starts the
\* recorder; with the preference 'testing' or unset the same invocation goes
\* on to the transcription at once, with 'regular' or 'new-recording' it only
\* starts recording, and under those two a transcription starts only in a
\* toggle that finds the recorder running and stops it
C15_ModeSelectsFlow ==
  [][ /\ (toggled' # toggled /\ speechTranscription /\ ~isTranscribing /\ ~isRecording)
         => /\ spawned' = spawned + 1
            /\ recordingProcess' = spawned'
            /\ IF config \in {"", "testing"}
               THEN /\ isTranscribing'
                    /\ \E i \in Slots :
                         inv[i].pc = "free" /\ inv'[i].pc = "transcribing"
               ELSE /\ isRecording'
                    /\ ~isTranscribing'
                    /\ inv' = inv
      /\ ( /\ config \in {"regular", "new-recording"}
           /\ \E i \in Slots : inv[i].pc # "transcribing" /\ inv'[i].pc = "transcribing" )
         => /\ toggled' # toggled
            /\ isRecording
            /\ ~isRecording'
            /\ recordingProcess' = 0
            /\ recordingProcess \notin liveRecorders'
    ]_vars

\* with the preference unset, the first toggle has started the recorder and
\* its invocation is at the transcription call
C15_Witness ==
  /\ config = ""
  /\ lastToggle = "testing"
  /\ spawned = 1
  /\ isTranscribing
  /\ inv[1] = [pc |-> "transcribing", branch |-> "testing"]

\* C16: a toggle invoked while isTranscribing is true, or while there is no
\* SpeechTranscription instance, leaves isRecording, isTranscribing and
\* recordingStartTime as they are, starts and stops no recorder, and starts no
\* transcription
C16_IgnoredToggleChangesNothing ==
  [][ (toggled' # toggled /\ (isTranscribing \/ ~speechTranscription))
        => UNCHANGED <<isRecording, isTranscribing, recordingStartTime,
                       recordingProcess, liveRecorders, spawned, inv>>
    ]_vars

\* a toggle was ignored while an invocation is at its transcription call
C16_Witness ==
  /\ lastToggle = "ignored"
  /\ isTranscribing
  /\ \E i \in Slots : inv[i].pc = "transcribing"

\* the completion of the current processRecording call carries, in its first
\* choice, a function call
RecordingHasFunctionCall ==
  /\ completion # <<>>
  /\ ~completion[1].isFalse
  /\ HasFirstFunctionCall(completion[1])
  /\ FirstFunctionArguments(completion[1]) # <<>>

\* the cases in which processRecording has no command to run: the engine's
\* text has length <= 2, the reply has no function call, or its arguments do
\* not parse
RecordingWithoutCommand ==
  \/ transcription # <<>> /\ Len(transcription[1].text) <= 2
  \/ completion # <<>> /\ ~completion[1].isFalse /\ ~RecordingHasFunctionCall
  \/ RecordingHasFunctionCall /\ ~JSONParse(FirstFunctionArguments(completion[1])).ok

\* C17: processRecording invokes a host command only when the reply carried a
\* function call whose arguments parsed and named a non-empty command; in the
\* cases without a command no host command is invoked, and (unless writeFile
\* itself fails) the result is written to the temp file and returned
C17_HostCommandOnlyForParsedCommand ==
  /\ recHostCalls # <<>> =>
       /\ RecordingHasFunctionCall
       /\ JSONParse(FirstFunctionArguments(completion[1])).ok
       /\ Get(JSONParse(FirstFunctionArguments(completion[1])).val, "command").t = "string"
       /\ Get(JSONParse(FirstFunctionArguments(completion[1])).val, "command").s # ""
  /\ RecordingWithoutCommand =>
       /\ recHostCalls = <<>>
       /\ (ppc = "returned" /\ \A i \in DOMAIN recNotices : recNotices[i] # WriteErrorNotice)
            => /\ recResult # <<>>
               /\ tempFile = recResult
               /\ recReturn = "result"

\* C18: isRecording and isTranscribing are never both true
C18_NotRecordingAndTranscribing == ~(isRecording /\ isTranscribing)

\* a recording was stopped and is being transcribed while the next one is
\* refused: the flags moved from recording to transcribing
C18_Witness ==
  /\ lastToggle = "stopped"
  /\ isTranscribing
  /\ ~isRecording
  /\ \E i \in Slots : inv[i] = [pc |-> "transcribing", branch |-> "stop"]

C20_AtMostOneLiveRecorder ==
  /\ Cardinality(liveRecorders) <= 1
  /\ liveRecorders \subseteq {recordingProcess}

\* C21: whenever isRecording is true, recordingStartTime is defined
C21_RecordingHasStartTime ==
  isRecording => recordingStartTime # "undefined"
=============================================================================
